---- MODULE Spec2Model ----
\* A model of flecs-rs' World (src/src/world.rs): the typed and untyped
\* component access paths, singletons, filters, quit/progress and the
\* teardown of owned and borrowed worlds.  The storage engine, the
\* WorldInfoCache registry and FilterGroup are collaborators of world.rs
\* and are modelled at their interface.
EXTENDS Integers, Sequences, FiniteSets, TLC

VARIABLES
    cache,      \* WorldInfoCache: component type -> runtime component id (0: not registered)
    nextId,     \* the engine's next fresh entity id
    alive,      \* the ids the engine reports as valid
    store,      \* component storage: <<entity, component id>> -> bytes
    prefabs,    \* the entities tagged EcsPrefab
    names,      \* entity id -> name ("" when unnamed)
    quitFlag,   \* the engine's quit flag (ecs_should_quit)
    res,        \* the last call: its name, arguments and result
    engines,    \* engine handle -> its kind and the teardown calls it received
    objs        \* the World values constructed so far

vars == <<cache, nextId, alive, store, prefabs, names, quitFlag, res, engines, objs>>
worldVars == <<cache, nextId, alive, store, prefabs, names, quitFlag>>
lifeVars == <<engines, objs>>

----------------------------------------------------------------------------
\* Bounds

MaxId == 3
MaxByte == 1
MaxSlots == 2
MaxEngines == 2
MaxWorlds == 3

----------------------------------------------------------------------------
\* Component types and their byte layout

Types == {"A", "B"}

\* std::mem::size_of::<T>(): A is one byte wide, B two.
SizeOf(T) == IF T = "A" THEN 1 ELSE 2

Ids == 1..MaxId
Zeroed(n) == [i \in 1..n |-> 0]
Filled(n) == [i \in 1..n |-> MaxByte]

\* the byte patterns callers write and uninitialized slots hold: all bytes 0
\* or all bytes MaxByte
BytesOfLen(n) == {Zeroed(n), Filled(n)}

\* the values of type T a caller passes
ValuesOf(T) == BytesOfLen(SizeOf(T))

\* the byte slices a caller hands to set_component: of A's and of B's size
Data == BytesOfLen(1) \cup BytesOfLen(2)

Names == {"p"}
DeltaTimes == {0, 16}
NoName == ""

\* Option<T>
None == <<>>
Some(x) == <<x>>

Running == res.kind # "panic"
Panic(op) == [op |-> op, kind |-> "panic"]

----------------------------------------------------------------------------
\* The storage engine, at the interface world.rs uses

ecs_is_valid(e) == e \in alive

Has(s, e, c) == <<e, c>> \in DOMAIN s

Put(s, e, c, v) ==
    [k \in DOMAIN s \cup {<<e, c>>} |-> IF k = <<e, c>> THEN v ELSE s[k]]

\* the storage holds at most MaxSlots component slots: a call that attaches
\* one more is not taken
CanAttach(s, e, c) == Has(s, e, c) \/ Cardinality(DOMAIN s) < MaxSlots

\* ecs_get_id: a pointer to the component, NULL when the entity is not valid
\* or lacks it.  A pointer is the storage key; NULL is <<>>.
ecs_get_id(e, c) ==
    IF ecs_is_valid(e) /\ Has(store, e, c) THEN <<e, c>> ELSE <<>>

\* ecs_add_id: attaches a zero-initialized slot when absent
ecs_add_id(s, e, c, size) ==
    IF Has(s, e, c) THEN s ELSE Put(s, e, c, Zeroed(size))

ecs_should_quit == quitFlag

\* ecs_progress: runs one frame, FALSE once a quit was signalled
ecs_progress(dt) == ~ecs_should_quit

\* ecs_lookup_path_w_sep: the ids carrying the name, 0 when there is none
ecs_lookup_path(name) ==
    IF \E e \in alive : names[e] = name
    THEN {e \in alive : names[e] = name}
    ELSE {0}

----------------------------------------------------------------------------
\* WorldInfoCache

get_component_id_for_type(T) == IF cache[T] = 0 THEN None ELSE Some(cache[T])

\* get_component_info: the registered size of a component id
get_component_info(c) ==
    IF \E T \in Types : cache[T] = c /\ c # 0
    THEN Some(SizeOf(CHOOSE T \in Types : cache[T] = c))
    ELSE None

\* the id register_component_typed returns: the cached one, else a fresh one
RegId(T) == IF cache[T] # 0 THEN cache[T] ELSE nextId

CanRegister(T) == cache[T] # 0 \/ nextId <= MaxId

\* register_component_typed: idempotent per type; a new component is a new
\* engine entity carrying the optional name
register_component_typed(T, name) ==
    IF cache[T] # 0
    THEN UNCHANGED <<cache, nextId, alive, names>>
    ELSE /\ cache' = [cache EXCEPT ![T] = nextId]
         /\ nextId' = nextId + 1
         /\ alive' = alive \cup {nextId}
         /\ names' = [names EXCEPT ![nextId] = name]

----------------------------------------------------------------------------
\* World: registration

\* World::id
id(T) == get_component_id_for_type(T)

id_call(T) ==
    /\ Running
    /\ res' = [op |-> "id", kind |-> "ok", T |-> T, out |-> id(T)]
    /\ UNCHANGED <<worldVars, lifeVars>>

\* a registration that mints a new id on every call
component_remint(T) ==
    /\ Running
    /\ nextId <= MaxId
    /\ cache' = [cache EXCEPT ![T] = nextId]
    /\ nextId' = nextId + 1
    /\ alive' = alive \cup {nextId}
    /\ res' = [op |-> "component", kind |-> "ok", T |-> T, out |-> nextId,
               pre |-> (cache[T] # 0)]
    /\ UNCHANGED <<names, store, prefabs, quitFlag, lifeVars>>

component(T) ==
    /\ Running
    /\ CanRegister(T)
    /\ register_component_typed(T, NoName)
    /\ res' = [op |-> "component", kind |-> "ok", T |-> T, out |-> RegId(T),
               pre |-> (cache[T] # 0)]
    /\ UNCHANGED <<store, prefabs, quitFlag, lifeVars>>

component_named(T, name) ==
    /\ Running
    /\ CanRegister(T)
    /\ register_component_typed(T, name)
    /\ res' = [op |-> "component_named", kind |-> "ok", T |-> T, out |-> RegId(T),
               pre |-> (cache[T] # 0)]
    /\ UNCHANGED <<store, prefabs, quitFlag, lifeVars>>

----------------------------------------------------------------------------
\* World: entities

entity ==
    /\ Running
    /\ nextId <= MaxId
    /\ nextId' = nextId + 1
    /\ alive' = alive \cup {nextId}
    /\ res' = [op |-> "entity", kind |-> "ok", out |-> nextId]
    /\ UNCHANGED <<cache, store, prefabs, names, quitFlag, lifeVars>>

\* a fresh entity, named, tagged EcsPrefab
prefab(name) ==
    /\ Running
    /\ nextId <= MaxId
    /\ nextId' = nextId + 1
    /\ alive' = alive \cup {nextId}
    /\ names' = [names EXCEPT ![nextId] = name]
    /\ prefabs' = prefabs \cup {nextId}
    /\ res' = [op |-> "prefab", kind |-> "ok", out |-> nextId]
    /\ UNCHANGED <<cache, store, quitFlag, lifeVars>>

\* a find_entity that trusts the id it is given
find_entity_any(e) == Some(e)

find_entity_out(e) == IF ecs_is_valid(e) THEN Some(e) ELSE None

find_entity(e) ==
    /\ Running
    /\ res' = [op |-> "find_entity", kind |-> "ok", e |-> e, out |-> find_entity_out(e)]
    /\ UNCHANGED <<worldVars, lifeVars>>

lookup_out(found) == IF found > 0 THEN Some(found) ELSE None

lookup(name) ==
    /\ Running
    /\ \E found \in ecs_lookup_path(name) :
           res' = [op |-> "lookup", kind |-> "ok", name |-> name, out |-> lookup_out(found)]
    /\ UNCHANGED <<worldVars, lifeVars>>

\* the engine deleting an entity (not a component): its id stops being valid
\* and its row is gone
ecs_delete(e) ==
    /\ Running
    /\ e \in alive
    /\ \A T \in Types : cache[T] # e
    /\ alive' = alive \ {e}
    /\ store' = [k \in {x \in DOMAIN store : x[1] # e} |-> store[k]]
    /\ prefabs' = prefabs \ {e}
    /\ names' = [names EXCEPT ![e] = NoName]
    /\ res' = [op |-> "delete", kind |-> "ok", e |-> e]
    /\ UNCHANGED <<cache, nextId, quitFlag, lifeVars>>

----------------------------------------------------------------------------
\* World: the frame loop

\* a progress that hands back the quit flag itself
progress_inverted(dt) == ecs_should_quit

progress_out(dt) == ecs_progress(dt)

progress(dt) ==
    /\ Running
    /\ res' = [op |-> "progress", kind |-> "ok", dt |-> dt, out |-> progress_out(dt)]
    /\ UNCHANGED <<worldVars, lifeVars>>

quit ==
    /\ Running
    /\ quitFlag' = TRUE
    /\ res' = [op |-> "quit", kind |-> "ok"]
    /\ UNCHANGED <<cache, nextId, alive, store, prefabs, names, lifeVars>>

----------------------------------------------------------------------------
\* World: typed access

\* get_internal: ecs_get_id, None on NULL, else the value behind the pointer
get_internal(s, al, e, comp) ==
    IF e \in al /\ Has(s, e, comp) THEN Some(s[<<e, comp>>]) ELSE None

get(T, e) ==
    /\ Running
    /\ IF id(T) = None
       THEN res' = [op |-> "get", kind |-> "panic", T |-> T, e |-> e, out |-> None]
       ELSE res' = [op |-> "get", kind |-> "ok", T |-> T, e |-> e,
                    out |-> get_internal(store, alive, e, cache[T])]
    /\ UNCHANGED <<worldVars, lifeVars>>

add(T, e) ==
    /\ Running
    /\ (id(T) # None /\ ecs_is_valid(e)) => CanAttach(store, e, cache[T])
    /\ IF id(T) = None
       THEN /\ res' = [op |-> "add", kind |-> "panic", T |-> T, e |-> e, pre |-> FALSE]
            /\ UNCHANGED store
       ELSE /\ store' = IF ecs_is_valid(e)
                        THEN ecs_add_id(store, e, cache[T], SizeOf(T))
                        ELSE store
            /\ res' = [op |-> "add", kind |-> "ok", T |-> T, e |-> e, pre |-> TRUE]
    /\ UNCHANGED <<cache, nextId, alive, prefabs, names, quitFlag, lifeVars>>

\* a set that attaches a missing component and leaves its slot zeroed
set_write_attach_only(s, e, comp, value) ==
    IF Has(s, e, comp) THEN Put(s, e, comp, value)
    ELSE Put(s, e, comp, Zeroed(Len(value)))

\* *dest = value, dest being ecs_get_mut_id's slot (attached when absent)
set_write(s, e, comp, value) == Put(s, e, comp, value)

set(T, e, value) ==
    /\ Running
    /\ (id(T) # None /\ ecs_is_valid(e)) => CanAttach(store, e, cache[T])
    /\ IF id(T) = None \/ ~ecs_is_valid(e)
       THEN /\ res' = Panic("set")
            /\ UNCHANGED store
       ELSE /\ store' = set_write(store, e, cache[T], value)
            /\ res' = [op |-> "set", kind |-> "ok", T |-> T, e |-> e, v |-> value,
                       had |-> Has(store, e, cache[T])]
    /\ UNCHANGED <<cache, nextId, alive, prefabs, names, quitFlag, lifeVars>>

----------------------------------------------------------------------------
\* World: singletons

\* every singleton kept on the first entity of the world
SingletonEntity_first(comp_id) == 1

\* entity = the component for singleton
SingletonEntity(comp_id) == comp_id

\* a set_singleton that expects the type to be registered already
set_singleton_noreg(T, value) ==
    /\ Running
    /\ IF id(T) = None
       THEN /\ res' = [op |-> "set_singleton", kind |-> "panic", T |-> T, v |-> value,
                       pre |-> FALSE]
            /\ UNCHANGED store
       ELSE /\ store' = set_write(store, SingletonEntity(cache[T]), cache[T], value)
            /\ res' = [op |-> "set_singleton", kind |-> "ok", T |-> T, v |-> value,
                       pre |-> TRUE]
    /\ UNCHANGED <<cache, nextId, alive, names, prefabs, quitFlag, lifeVars>>

set_singleton(T, value) ==
    /\ Running
    /\ CanRegister(T)
    /\ CanAttach(store, SingletonEntity(RegId(T)), RegId(T))
    /\ register_component_typed(T, NoName)
    /\ LET comp_id == RegId(T)
           ent == SingletonEntity(comp_id) IN
       IF ent \in alive'
       THEN /\ store' = set_write(store, ent, comp_id, value)
            /\ res' = [op |-> "set_singleton", kind |-> "ok", T |-> T, v |-> value,
                       pre |-> (cache[T] # 0)]
       ELSE /\ res' = [op |-> "set_singleton", kind |-> "panic", T |-> T, v |-> value,
                       pre |-> (cache[T] # 0)]
            /\ UNCHANGED store
    /\ UNCHANGED <<prefabs, quitFlag, lifeVars>>

get_singleton_mut(T) ==
    /\ Running
    /\ CanRegister(T)
    /\ CanAttach(store, SingletonEntity(RegId(T)), RegId(T))
    /\ register_component_typed(T, NoName)
    /\ LET comp_id == RegId(T)
           ent == SingletonEntity(comp_id) IN
       \E init \in ValuesOf(T) :
           /\ store' = IF Has(store, ent, comp_id) THEN store
                       ELSE Put(store, ent, comp_id, init)
           /\ res' = [op |-> "get_singleton_mut", kind |-> "ok", T |-> T,
                      pre |-> (cache[T] # 0), out |-> Some(store'[<<ent, comp_id>>])]
    /\ UNCHANGED <<prefabs, quitFlag, lifeVars>>

get_singleton_out(T) ==
    get_internal(store, alive, SingletonEntity(cache[T]), cache[T])

get_singleton(T) ==
    /\ Running
    /\ IF id(T) = None
       THEN res' = [op |-> "get_singleton", kind |-> "panic", T |-> T, pre |-> FALSE]
       ELSE res' = [op |-> "get_singleton", kind |-> "ok", T |-> T, pre |-> TRUE,
                    out |-> get_singleton_out(T)]
    /\ UNCHANGED <<worldVars, lifeVars>>

----------------------------------------------------------------------------
\* World: untyped access

\* ecs_get_mut_id on a valid entity: the slot is attached when absent, its
\* bytes being whatever the engine left there
get_mut_store(s, e, comp, init) ==
    IF Has(s, e, comp) THEN s ELSE Put(s, e, comp, init)

\* data.len() == dest.len()
SizeMatches(data, size) == Len(data) = size

\* dest.copy_from_slice(data) when the lengths agree, nothing otherwise
copy_if_fits(s, e, comp, data, size) ==
    IF SizeMatches(data, size) THEN Put(s, e, comp, data) ELSE s

\* what a call of set_component is recorded as: size is 0 for an unregistered
\* component id; valid and had describe the entity before the call
SetResult(kind, e, comp, data, size, had) ==
    [op |-> "set_component", kind |-> kind, e |-> e, c |-> comp, len |-> Len(data),
     size |-> size, valid |-> ecs_is_valid(e), had |-> had]

set_component(e, comp, data) ==
    /\ Running
    /\ (get_component_info(comp) # None /\ ecs_is_valid(e)) => CanAttach(store, e, comp)
    /\ IF get_component_info(comp) = None
       THEN /\ res' = SetResult("panic", e, comp, data, 0, FALSE)
            /\ UNCHANGED store
       ELSE LET size == get_component_info(comp)[1] IN
            IF ecs_is_valid(e)
            THEN \E init \in BytesOfLen(size) :
                   /\ store' = copy_if_fits(get_mut_store(store, e, comp, init),
                                            e, comp, data, size)
                   /\ res' = SetResult("ok", e, comp, data, size, Has(store, e, comp))
            ELSE \* a slice over a NULL pointer: copying into it crashes, and
                 \* building it may already abort
                 /\ UNCHANGED store
                 /\ \/ res' = SetResult("panic", e, comp, data, size, FALSE)
                    \/ /\ ~SizeMatches(data, size)
                       /\ res' = SetResult("ok", e, comp, data, size, FALSE)
    /\ UNCHANGED <<cache, nextId, alive, prefabs, names, quitFlag, lifeVars>>

read_component_out(e, comp) ==
    IF ~ecs_is_valid(e) THEN None
    ELSE IF ecs_get_id(e, comp) = <<>> THEN None
    ELSE Some(store[ecs_get_id(e, comp)])

read_component(e, comp) ==
    /\ Running
    /\ IF get_component_info(comp) = None
       THEN res' = [op |-> "read_component", kind |-> "panic", e |-> e, c |-> comp,
                    out |-> None]
       ELSE res' = [op |-> "read_component", kind |-> "ok", e |-> e, c |-> comp,
                    out |-> read_component_out(e, comp)]
    /\ UNCHANGED <<worldVars, lifeVars>>

\* the writers a caller passes: one leaves the slice alone, one rewrites it
Writers == {"keep", "invert"}
ApplyWriter(w, bytes) ==
    IF w = "keep" THEN bytes ELSE [i \in DOMAIN bytes |-> MaxByte - bytes[i]]

WriteResult(kind, e, comp, writer, size, had) ==
    [op |-> "write_component", kind |-> kind, e |-> e, c |-> comp, writer |-> writer,
     size |-> size, valid |-> ecs_is_valid(e), had |-> had]

write_component(e, comp, writer) ==
    /\ Running
    /\ (get_component_info(comp) # None /\ ecs_is_valid(e)) => CanAttach(store, e, comp)
    /\ IF get_component_info(comp) = None
       THEN /\ res' = WriteResult("panic", e, comp, writer, 0, FALSE)
            /\ UNCHANGED store
       ELSE LET size == get_component_info(comp)[1] IN
            IF ecs_is_valid(e)
            THEN \E init \in BytesOfLen(size) :
                   LET s1 == get_mut_store(store, e, comp, init) IN
                   /\ store' = Put(s1, e, comp, ApplyWriter(writer, s1[<<e, comp>>]))
                   /\ res' = WriteResult("ok", e, comp, writer, size, Has(store, e, comp))
            ELSE /\ UNCHANGED store
                 /\ \/ res' = WriteResult("panic", e, comp, writer, size, FALSE)
                    \/ /\ writer = "keep"
                       /\ res' = WriteResult("ok", e, comp, writer, size, FALSE)
    /\ UNCHANGED <<cache, nextId, alive, prefabs, names, quitFlag, lifeVars>>

----------------------------------------------------------------------------
\* Filters over a component group

\* the component groups iterated: tuples of distinct component types
Groups == {<<"A">>, <<"B">>, <<"A", "B">>, <<"B", "A">>}

\* G::component_ids: each element resolved through the registry, in tuple order
component_ids(G) == [i \in DOMAIN G |-> cache[G[i]]]

\* the engine's match: the valid, non-prefab entities having every id
filter_matches(ids) ==
    {e \in alive : e \notin prefabs /\ \A i \in DOMAIN ids : Has(store, e, ids[i])}

\* the row the engine hands back for a match: one pointer per requested id
filter_row(e, ids) == [i \in DOMAIN ids |-> <<e, ids[i]>>]

\* G::ref_tuple: pointer i is read as the i-th type of the tuple
ref_tuple(G, row) == [i \in DOMAIN G |-> [type |-> G[i], ptr |-> row[i]]]

\* what the callback reads through a reference tuple
Deref(s, tuple) == [i \in DOMAIN tuple |-> s[tuple[i].ptr]]

\* the callbacks a caller passes to each_mut: first += second, saturating at
\* MaxByte, every byte of first taking the matching byte of second (its last
\* one when second is shorter; first += MaxByte for a group of one), or no
\* write at all
Callbacks == {"keep", "integrate"}
SatAdd(x, y) == IF x + y > MaxByte THEN MaxByte ELSE x + y
AddBytes(a, b) ==
    [k \in DOMAIN a |-> SatAdd(a[k], IF k \in DOMAIN b THEN b[k] ELSE b[Len(b)])]
CallbackWrites(cb, vals) ==
    IF cb = "keep" THEN vals
    ELSE [i \in DOMAIN vals |->
            IF i = 1
            THEN AddBytes(vals[1], IF Len(vals) > 1 THEN vals[2] ELSE <<MaxByte>>)
            ELSE vals[i]]

\* FilterGroup::new and the iteration: the filter is built from the group's
\* component ids, and each matched entity's row is read as the group's tuple
FilterRows(G) ==
    [e \in filter_matches(component_ids(G)) |->
        ref_tuple(G, filter_row(e, component_ids(G)))]

Registered(G) == \A i \in DOMAIN G : cache[G[i]] # 0

each(G) ==
    /\ Running
    /\ IF ~Registered(G)
       THEN res' = Panic("each")
       ELSE \E args \in {FilterRows(G)} :
            res' = [op |-> "each", kind |-> "ok", G |-> G,
                    calls |-> [e \in Ids |-> IF e \in DOMAIN args THEN 1 ELSE 0],
                    args |-> args,
                    vals |-> [e \in DOMAIN args |-> Deref(store, args[e])]]
    /\ UNCHANGED <<worldVars, lifeVars>>

\* the storage after the callback wrote through the mutable references
WriteBack(s, args, wrote) ==
    [k \in DOMAIN s |->
        IF k[1] \in DOMAIN args /\ \E i \in DOMAIN args[k[1]] : args[k[1]][i].ptr = k
        THEN wrote[k[1]][CHOOSE i \in DOMAIN args[k[1]] : args[k[1]][i].ptr = k]
        ELSE s[k]]

\* an each_mut whose callback works on copies of the components
each_mut_copies(G, cb) ==
    /\ Running
    /\ IF ~Registered(G)
       THEN res' = Panic("each_mut")
       ELSE \E args \in {FilterRows(G)} :
            \E wrote \in {[e \in DOMAIN args |-> CallbackWrites(cb, Deref(store, args[e]))]} :
                res' = [op |-> "each_mut", kind |-> "ok", G |-> G,
                        calls |-> [e \in Ids |-> IF e \in DOMAIN args THEN 1 ELSE 0],
                        args |-> args, vals |-> wrote]
    /\ UNCHANGED <<worldVars, lifeVars>>

each_mut(G, cb) ==
    /\ Running
    /\ IF ~Registered(G)
       THEN /\ res' = Panic("each_mut")
            /\ UNCHANGED store
       ELSE \E args \in {FilterRows(G)} :
            \E wrote \in {[e \in DOMAIN args |-> CallbackWrites(cb, Deref(store, args[e]))]} :
                /\ store' = WriteBack(store, args, wrote)
                /\ res' = [op |-> "each_mut", kind |-> "ok", G |-> G,
                           calls |-> [e \in Ids |-> IF e \in DOMAIN args THEN 1 ELSE 0],
                           args |-> args, vals |-> wrote]
    /\ UNCHANGED <<cache, nextId, alive, prefabs, names, quitFlag, lifeVars>>

----------------------------------------------------------------------------
\* World values: construction and drop

NULL == 0

\* ecs_init: a fresh engine instance
new ==
    /\ Len(objs) < MaxWorlds
    /\ Len(engines) < MaxEngines
    /\ engines' = Append(engines, [kind |-> "world", fini |-> 0, free |-> 0])
    /\ objs' = Append(objs, [world |-> Len(engines) + 1, owned |-> TRUE, dropped |-> FALSE])
    /\ res' = [op |-> "World::new", kind |-> "ok"]
    /\ UNCHANGED worldVars

\* the engine handing out an async stage of one of its worlds
ecs_async_stage_new ==
    /\ Len(engines) < MaxEngines
    /\ \E h \in DOMAIN engines : engines[h].kind = "world"
    /\ engines' = Append(engines, [kind |-> "stage", fini |-> 0, free |-> 0])
    /\ res' = [op |-> "stage", kind |-> "ok"]
    /\ UNCHANGED <<worldVars, objs>>

new_from(world) ==
    /\ Len(objs) < MaxWorlds
    /\ objs' = Append(objs, [world |-> world, owned |-> FALSE, dropped |-> FALSE])
    /\ res' = [op |-> "World::new_from", kind |-> "ok"]
    /\ UNCHANGED <<worldVars, engines>>

ecs_stage_is_async(world) == engines[world].kind = "stage"

\* a Drop that tears the engine down whether or not the World owns it
drop_calls_unowned(w) ==
    IF w.world # NULL /\ ecs_stage_is_async(w.world) THEN <<"ecs_async_stage_free">>
    ELSE IF w.world # NULL THEN <<"ecs_fini">>
    ELSE <<>>

\* the teardown calls Drop makes, in order
drop_calls(w) ==
    IF w.owned /\ ecs_stage_is_async(w.world) THEN <<"ecs_async_stage_free">>
    ELSE IF w.owned /\ w.world # NULL THEN <<"ecs_fini">>
    ELSE <<>>

Count(calls, name) == Cardinality({i \in DOMAIN calls : calls[i] = name})

drop(i) ==
    /\ i \in DOMAIN objs
    /\ ~objs[i].dropped
    /\ LET w == objs[i]
           calls == drop_calls(w) IN
       /\ objs' = [objs EXCEPT ![i].dropped = TRUE]
       /\ engines' = IF calls = <<>> THEN engines
                     ELSE [engines EXCEPT
                             ![w.world].fini = @ + Count(calls, "ecs_fini"),
                             ![w.world].free = @ + Count(calls, "ecs_async_stage_free")]
       /\ res' = [op |-> "drop", kind |-> "ok", i |-> i, calls |-> calls]
    /\ UNCHANGED worldVars

----------------------------------------------------------------------------
\* Specifications

Init ==
    /\ cache = [T \in Types |-> 0]
    /\ nextId = 1
    /\ alive = {}
    /\ store = <<>>
    /\ prefabs = {}
    /\ names = [e \in Ids |-> NoName]
    /\ quitFlag = FALSE
    /\ res = [op |-> "new", kind |-> "ok"]
    /\ engines = <<>>
    /\ objs = <<>>

\* typed access
Next ==
    \/ \E T \in Types : component(T)
    \/ entity
    \/ \E T \in Types, e \in Ids : get(T, e)
    \/ \E T \in Types, e \in Ids : add(T, e)
    \/ \E T \in Types, e \in Ids : \E value \in ValuesOf(T) : set(T, e, value)
    \/ \E T \in Types : \E value \in ValuesOf(T) : set_singleton(T, value)
    \/ \E T \in Types : get_singleton_mut(T)
    \/ \E T \in Types : get_singleton(T)

Spec == Init /\ [][Next]_vars

\* every path that registers a component type
NextReg ==
    \/ \E T \in Types : id_call(T)
    \/ \E T \in Types : component(T)
    \/ \E T \in Types, name \in Names : component_named(T, name)
    \/ entity
    \/ \E name \in Names : prefab(name)
    \/ \E T \in Types : \E value \in ValuesOf(T) : set_singleton(T, value)
    \/ \E T \in Types : get_singleton_mut(T)

SpecReg == Init /\ [][NextReg]_vars

\* untyped access
NextUntyped ==
    \/ \E T \in Types : component(T)
    \/ entity
    \/ \E e \in Ids, c \in Ids : \E data \in Data : set_component(e, c, data)
    \/ \E e \in Ids, c \in Ids : \E w \in Writers : write_component(e, c, w)

SpecUntyped == Init /\ [][NextUntyped]_vars

\* reads and lookups of entities that may be gone
NextRead ==
    \/ \E T \in Types : component(T)
    \/ \E name \in Names : prefab(name)
    \/ \E e \in Ids : ecs_delete(e)
    \/ \E T \in Types, e \in Ids : \E value \in ValuesOf(T) : set(T, e, value)
    \/ \E e \in 0..MaxId : find_entity(e)
    \/ \E name \in Names \cup {"q"} : lookup(name)
    \/ \E T \in Types, e \in Ids : get(T, e)
    \/ \E e \in Ids, c \in Ids : read_component(e, c)

SpecRead == Init /\ [][NextRead]_vars

\* filters
NextFilter ==
    \/ \E T \in Types : component(T)
    \/ entity
    \/ \E name \in Names : prefab(name)
    \/ \E T \in Types, e \in Ids : \E value \in ValuesOf(T) : set(T, e, value)
    \/ \E G \in Groups : each(G)
    \/ \E G \in Groups, cb \in Callbacks : each_mut(G, cb)

SpecFilter == Init /\ [][NextFilter]_vars

\* the frame loop
NextFrame ==
    \/ \E T \in Types : component(T)
    \/ entity
    \/ \E name \in Names : prefab(name)
    \/ \E T \in Types, e \in Ids : add(T, e)
    \/ \E dt \in DeltaTimes : progress(dt)
    \/ quit

SpecFrame == Init /\ [][NextFrame]_vars

\* construction and drop of World values
NextLife ==
    \/ new
    \/ ecs_async_stage_new
    \/ \E h \in {NULL} \cup DOMAIN engines : new_from(h)
    \/ \E i \in DOMAIN objs : drop(i)

SpecLife == Init /\ [][NextLife]_vars

----------------------------------------------------------------------------
\* Properties

\* the entities of the world: every id the engine handed out
Minted == 1..(nextId - 1)

\* C1: after set<T>(e, v) (which attaches T to e when e lacked it), get<T>(e)
\* is present and equal to v; calls that are not writes leave every stored
\* component value as it was.
RoundTripSetGet ==
    /\ []((res.op = "set" /\ res.kind = "ok") =>
            get_internal(store, alive, res.e, cache[res.T]) = Some(res.v))
    /\ [][(res'.op \in {"get", "add", "component", "entity", "get_singleton"}) =>
            \A k \in DOMAIN store : k \in DOMAIN store' /\ store'[k] = store[k]]_vars

\* C1 witness: a set that attached a component the entity lacked, with a
\* non-zero value
RoundTripSetGetWitness ==
    /\ res.op = "set" /\ res.kind = "ok"
    /\ ~res.had
    /\ res.v = Filled(SizeOf(res.T))
    /\ store[<<res.e, cache[res.T]>>] = res.v

\* C2: every registration call for T returns the one id T is mapped to, ids of
\* distinct types differ, a mapping once made never changes, and id<T>()
\* returns it.
IdempotentRegistration ==
    /\ [](\A T, U \in Types : (T # U /\ cache[T] # 0) => cache[T] # cache[U])
    /\ [](res.op \in {"component", "component_named"} =>
            res.out # 0 /\ res.out = cache[res.T])
    /\ []((res.op = "id" /\ cache[res.T] # 0) => res.out = Some(cache[res.T]))
    /\ [][\A T \in Types : cache[T] # 0 => cache'[T] = cache[T]]_vars
    /\ [][(res'.op \in {"component", "component_named"} /\ cache[res'.T] # 0) =>
            res'.out = cache[res'.T]]_vars

\* C2 witness: a registration call for an already registered type, both types
\* being registered
IdempotentRegistrationWitness ==
    /\ res.op \in {"component", "component_named"}
    /\ res.pre
    /\ \A T \in Types : cache[T] # 0

\* C3: no engine instance receives more than one teardown call; dropping a
\* borrowed World makes none, dropping an owned World makes exactly one: the
\* async-stage free for an async stage, else the engine fini.
TeardownOnce ==
    /\ \A h \in DOMAIN engines : engines[h].fini + engines[h].free <= 1
    /\ res.op = "drop" =>
         LET w == objs[res.i] IN
         IF w.owned
         THEN res.calls = IF engines[w.world].kind = "stage"
                          THEN <<"ecs_async_stage_free">> ELSE <<"ecs_fini">>
         ELSE res.calls = <<>>

\* C3 witness: an owned World and a borrowed World of the same engine, both
\* dropped, the engine finalized once
TeardownOnceWitness ==
    \E i, j \in DOMAIN objs :
        /\ objs[i].owned /\ objs[i].dropped
        /\ ~objs[j].owned /\ objs[j].dropped
        /\ objs[i].world = objs[j].world
        /\ engines[objs[i].world].fini = 1
        /\ res.op = "drop"

\* C4: set_component with a slice whose length differs from the registered
\* size leaves the storage, and the components each entity has, as before.
SizeGuardNoOp ==
    [][(res'.op = "set_component" /\ res'.kind = "ok" /\ res'.len # res'.size) =>
          store' = store]_vars

\* C5: after set_singleton<T>(v), get_singleton<T>() is v, the value being
\* component T of the entity whose id is T's component id; set_singleton of
\* another type leaves it as it was.
SingletonIsolation ==
    /\ [](res.op = "set_singleton" =>
            /\ get_singleton_out(res.T) = Some(res.v)
            /\ Has(store, cache[res.T], cache[res.T])
            /\ store[<<cache[res.T], cache[res.T]>>] = res.v)
    /\ [][res'.op = "set_singleton" =>
            \A U \in Types \ {res'.T} :
                cache[U] # 0 =>
                    /\ cache'[U] = cache[U]
                    /\ get_internal(store', alive', cache[U], cache[U])
                         = get_internal(store, alive, cache[U], cache[U])]_vars

\* C5 witness: the singleton of B just set, the singleton of A holding another
\* value
SingletonIsolationWitness ==
    /\ res.op = "set_singleton" /\ res.T = "B" /\ res.v = Zeroed(2)
    /\ cache["A"] # 0
    /\ get_internal(store, alive, cache["A"], cache["A"]) = Some(Filled(1))

\* the entities having every component of group G
HasAll(G, e) == e \in alive /\ \A i \in DOMAIN G : Has(store, e, cache[G[i]])

\* what each and each_mut hand to the callback: element i is component G[i] of
\* the visited entity, and what each_mut wrote is what get returns
Positional ==
    \A e \in DOMAIN res.args :
        \A i \in DOMAIN res.G :
            /\ res.args[e][i].type = res.G[i]
            /\ res.args[e][i].ptr = <<e, cache[res.G[i]]>>
            /\ get_internal(store, alive, e, cache[res.G[i]]) = Some(res.vals[e][i])

\* C6 as stated: the callback runs exactly once for each entity having every
\* component of the group, and for no other.
FilterVisitsEveryHolder ==
    (res.op \in {"each", "each_mut"} /\ res.kind = "ok") =>
        /\ \A e \in Ids : res.calls[e] = IF HasAll(res.G, e) THEN 1 ELSE 0
        /\ Positional

\* C6 amended: the callback runs exactly once for each entity that has every
\* component of the group and is not tagged as a prefab, and for no other;
\* element i of the tuple is component G[i] of that entity, and a write made
\* by each_mut is what get returns afterwards.
FilterVisitsNonPrefabHolders ==
    (res.op \in {"each", "each_mut"} /\ res.kind = "ok") =>
        /\ \A e \in Ids :
              res.calls[e] = IF HasAll(res.G, e) /\ e \notin prefabs THEN 1 ELSE 0
        /\ DOMAIN res.args = {e \in Ids : res.calls[e] = 1}
        /\ Positional

\* C6 witness: each_mut over (B, A), B registered after A, visited an entity
\* and added its A to its B
FilterWitness ==
    /\ res.op = "each_mut" /\ res.kind = "ok" /\ res.G = <<"B", "A">>
    /\ cache["A"] < cache["B"]
    /\ \E e \in DOMAIN res.args :
          /\ res.calls[e] = 1
          /\ res.vals[e][1] = Filled(2)
          /\ res.vals[e][2] = Filled(1)

\* C7: quit() raises the engine's quit flag, the flag stays raised, and a
\* progress made while it is raised returns false.
QuitThenProgress ==
    /\ []((res.op = "progress" /\ quitFlag) => res.out = FALSE)
    /\ [][res'.op = "quit" => quitFlag']_vars
    /\ [][quitFlag => quitFlag']_vars

\* C7 witness: a progress after a quit, in a world holding a component
QuitThenProgressWitness ==
    /\ res.op = "progress" /\ quitFlag /\ res.out = FALSE
    /\ DOMAIN store # {}

\* C8 as stated: add, set_singleton, get_singleton and get_singleton_mut on an
\* unregistered type register it and succeed.
RegistersOnDemand ==
    (res.op \in {"add", "set_singleton", "get_singleton", "get_singleton_mut"}
        /\ ~res.pre) =>
        (res.kind = "ok" /\ cache[res.T] # 0)

\* C8 amended: set_singleton and get_singleton_mut on an unregistered type
\* register it and then act on the singleton; add and get_singleton on an
\* unregistered type fail fatally and leave it unregistered.
RegistersOnDemandSingletonWrites ==
    /\ (res.op \in {"set_singleton", "get_singleton_mut"} /\ ~res.pre) =>
          /\ res.kind = "ok"
          /\ cache[res.T] # 0
          /\ Has(store, cache[res.T], cache[res.T])
    /\ (res.op \in {"add", "get_singleton"} /\ ~res.pre) =>
          /\ res.kind = "panic"
          /\ cache[res.T] = 0

\* C8 witness: set_singleton on a type that was not registered
RegistersOnDemandWitness ==
    /\ res.op = "set_singleton" /\ ~res.pre /\ res.kind = "ok"
    /\ cache[res.T] # 0

\* C9: set_component and write_component on a registered component and an
\* entity that is invalid or lacks the component do not fail and change nothing.
MissingTargetNoOp ==
    [][(res'.op \in {"set_component", "write_component"} /\ res'.size # 0
          /\ (~res'.valid \/ ~res'.had)) =>
          (res'.kind = "ok" /\ store' = store)]_vars

\* C10: find_entity is present exactly for the ids the engine reports valid;
\* get and read_component of a registered component are absent when the entity
\* is invalid or lacks it and are its stored bytes otherwise; lookup is absent
\* when no entity carries the name; none of them changes the storage.
OrdinaryAbsence ==
    /\ [](res.op = "find_entity" =>
            res.out = IF res.e \in alive THEN Some(res.e) ELSE None)
    /\ [](res.op = "get" =>
            /\ res.kind = "panic" <=> cache[res.T] = 0
            /\ res.kind = "ok" =>
                 res.out = IF res.e \in alive /\ Has(store, res.e, cache[res.T])
                           THEN Some(store[<<res.e, cache[res.T]>>]) ELSE None)
    /\ [](res.op = "read_component" =>
            /\ res.kind = "panic" <=> (\A T \in Types : cache[T] # res.c)
            /\ res.kind = "ok" =>
                 res.out = IF res.e \in alive /\ Has(store, res.e, res.c)
                           THEN Some(store[<<res.e, res.c>>]) ELSE None)
    /\ [](res.op = "lookup" =>
            IF \E e \in alive : names[e] = res.name
            THEN res.out # None /\ res.out[1] \in alive /\ names[res.out[1]] = res.name
            ELSE res.out = None)
    /\ [](\A k \in DOMAIN store : k[1] \in alive)
    /\ [][res'.op \in {"find_entity", "get", "read_component", "lookup"} =>
            store' = store /\ alive' = alive]_vars

\* C10 witness: a get of a registered component on an entity that was deleted
OrdinaryAbsenceWitness ==
    /\ res.op = "get" /\ res.kind = "ok" /\ res.out = None
    /\ res.e \in Minted /\ res.e \notin alive

====
